---- MODULE Spec2Model ----
(***************************************************************************)
(* Model of the branch salary-per-hour ETL (etl_branch_salary.py and the   *)
(* extract / transform / load pipelines of common_package).               *)
(*                                                                         *)
(* A DataFrame is a sequence of records (row order kept); the row label of *)
(* the pandas index is the field "index".  A cell of a time column is a    *)
(* record [kind, v]: the CSV text of a time of day ("str", v minutes), a   *)
(* CSV text that is no duration ("bad"), a missing value ("nan"), the text *)
(* 'nan' made by astype(str) ("nanstr"), a Timedelta ("td", v minutes) or  *)
(* NaT ("nat").  Numeric cells are [kind |-> "num", v] or Nan.  Durations  *)
(* are kept in minutes, and hours_diff in minutes too (hours * 60).        *)
(***************************************************************************)
EXTENDS Integers, Sequences, FiniteSets, TLC

VARIABLES pc, now, employees_csv, timesheets_csv, employees, loaded, deduped,
          timed, adjusted, merged, final_data, staging, main_table, errors,
          outcome, trace

vars == <<pc, now, employees_csv, timesheets_csv, employees, loaded, deduped,
          timed, adjusted, merged, final_data, staging, main_table, errors,
          outcome, trace>>

(***************************************************************************)
(* Bounds of the input tables.                                             *)
(***************************************************************************)
MaxGroupRows == 3
MaxTimeRows == 2
MaxJoinRows == 2
MaxEmployees == 3
MaxAggRows == 3

(***************************************************************************)
(* Cells.                                                                  *)
(***************************************************************************)
Nan == [kind |-> "nan", v |-> 0]
NaT == [kind |-> "nat", v |-> 0]
Bad == [kind |-> "bad", v |-> 0]
NanStr == [kind |-> "nanstr", v |-> 0]
Str(m) == [kind |-> "str", v |-> m]
Td(m) == [kind |-> "td", v |-> m]
Num(n) == [kind |-> "num", v |-> n]

isna(c) == c.kind \in {"nan", "nat"}

\* Series.astype(str): a missing value becomes the text 'nan'.
astype_str(c) == IF c.kind = "nan" THEN NanStr ELSE c

\* pd.to_timedelta on one value: does the default errors='raise' raise on it
to_timedelta_raises(c) == c.kind = "bad"

\* pd.to_timedelta on one value that parses, and with errors='coerce'
to_timedelta(c) ==
    CASE c.kind = "str" -> Td(c.v)
      [] c.kind = "td" -> c
      [] OTHER -> NaT

\* Timedelta comparisons: any comparison with NaT is False
td_le(a, b) == a.kind = "td" /\ b.kind = "td" /\ a.v <= b.v
td_gt(a, b) == a.kind = "td" /\ b.kind = "td" /\ a.v > b.v

H(h) == h * 60
OneDay == H(24)

(***************************************************************************)
(* The calendar: a date is a day ordinal into Calendar.                    *)
(***************************************************************************)
Calendar == << [year |-> 2024, month |-> 1, day |-> 30],
               [year |-> 2024, month |-> 1, day |-> 31],
               [year |-> 2024, month |-> 2, day |-> 1] >>
Dates == DOMAIN Calendar

(***************************************************************************)
(* extract_pipeline.load_csv                                               *)
(***************************************************************************)
\* pd.read_csv: the rows of the file under a RangeIndex 0..n-1
read_csv(file) == [i \in DOMAIN file |-> [index |-> i - 1] @@ file[i]]

\* datetime.now() - timedelta(days=1) falls inside the day before today, so
\* a date (midnight) is later than it exactly when it is today or later.
after_one_day_before(date, today) == date >= today

load_csv(file, data_type, today) ==
    IF data_type = "timesheets"
    THEN SelectSeq(read_csv(file), LAMBDA r : after_one_day_before(r.date, today))
    ELSE read_csv(file)

(***************************************************************************)
(* transform_pipeline.remove_duplicates                                    *)
(***************************************************************************)
SameKey(a, b) == a.employee_id = b.employee_id /\ a.date = b.date

\* timesheets[timesheets.duplicated(subset=['employee_id','date'], keep=False)]
duplicates(timesheets) ==
    SelectSeq(timesheets,
              LAMBDA r : Cardinality({i \in DOMAIN timesheets : SameKey(timesheets[i], r)}) > 1)

duplicate_subset(timesheets, row) == SelectSeq(timesheets, LAMBDA r : SameKey(r, row))

null_checkout(subset) == SelectSeq(subset, LAMBDA r : isna(r.checkout))

\* equality of two rows on every column but timesheet_id (the index is no column)
EqualExceptId(a, b) ==
    /\ a.employee_id = b.employee_id
    /\ a.date = b.date
    /\ a.checkin = b.checkin
    /\ a.checkout = b.checkout

\* subset.drop(['timesheet_id'], axis=1).duplicated(keep='first'), as positions
duplicated_except_id(subset) ==
    {i \in DOMAIN subset : \E j \in 1..(i - 1) : EqualExceptId(subset[j], subset[i])}

\* duplicate_subset[duplicated_except_id].index
duplicate_indices(subset) ==
    LET hit == duplicated_except_id(subset)
        RECURSIVE walk(_)
        walk(i) == IF i > Len(subset) THEN <<>>
                   ELSE (IF i \in hit THEN <<subset[i].index>> ELSE <<>>) \o walk(i + 1)
    IN walk(1)

\* MarkedBy, were every record with a null checkout marked instead of the first
MarkedByEveryNull(timesheets, row) ==
    LET subset == duplicate_subset(timesheets, row)
        nulls == null_checkout(subset)
        dups == duplicate_indices(subset)
    IN IF nulls # <<>> THEN {nulls[i].index : i \in DOMAIN nulls}
       ELSE IF dups # <<>> THEN {dups[1]}
       ELSE {}

\* one turn of the loop over the duplicated rows: the labels it appends
MarkedBy(timesheets, row) ==
    LET subset == duplicate_subset(timesheets, row)
        nulls == null_checkout(subset)
        dups == duplicate_indices(subset)
    IN IF nulls # <<>> THEN {nulls[1].index}
       ELSE IF dups # <<>> THEN {dups[1]}
       ELSE {}

index_to_delete(timesheets) ==
    LET d == duplicates(timesheets)
    IN UNION {MarkedBy(timesheets, d[i]) : i \in DOMAIN d}

remove_duplicates(timesheets) ==
    LET gone == index_to_delete(timesheets)
    IN SelectSeq(timesheets, LAMBDA r : r.index \notin gone)

(***************************************************************************)
(* transform_pipeline.process_timesheets_column / transform_times          *)
(***************************************************************************)
\* np.select(conditions, choices, default) on one row: the first true condition
np_select(conditions, choices, default) ==
    IF \E i \in DOMAIN conditions : conditions[i]
    THEN choices[CHOOSE i \in DOMAIN conditions :
                    conditions[i] /\ \A j \in 1..(i - 1) : ~conditions[j]]
    ELSE default

\* process_timesheets_column on one cell: astype(str), np.select, to_timedelta(coerce)
process_timesheets_column(cell, conditions, choices) ==
    to_timedelta(np_select(conditions, choices, astype_str(cell)))

\* checkout_conditions, were the first threshold test < instead of <=
checkout_conditions_strict(r) ==
    << isna(r.checkout) /\ td_gt(Td(H(12)), to_timedelta(r.checkin)),
       isna(r.checkout) /\ td_gt(to_timedelta(r.checkin), Td(H(12))) >>

checkout_conditions(r) ==
    << isna(r.checkout) /\ td_le(to_timedelta(r.checkin), Td(H(12))),
       isna(r.checkout) /\ td_gt(to_timedelta(r.checkin), Td(H(12))) >>
checkout_choices == << Td(H(18)), Td(OneDay + H(8)) >>

checkin_conditions(r) ==
    << isna(r.checkin) /\ td_le(to_timedelta(r.checkout), Td(H(9))),
       isna(r.checkin) /\ td_gt(to_timedelta(r.checkout), Td(H(9))) >>
checkin_choices == << Td(H(0)), Td(H(9)) >>

\* pd.to_timedelta(timesheets['checkin']) with errors='raise', on the raw column
transform_times_raises(timesheets) ==
    \E i \in DOMAIN timesheets : to_timedelta_raises(timesheets[i].checkin)

transform_row(r) ==
    LET r1 == [r EXCEPT !.checkout =
                 process_timesheets_column(r.checkout, checkout_conditions(r), checkout_choices)]
    IN [r1 EXCEPT !.checkin =
          process_timesheets_column(r1.checkin, checkin_conditions(r1), checkin_choices)]

transform_times(timesheets) == [i \in DOMAIN timesheets |-> transform_row(timesheets[i])]

(***************************************************************************)
(* transform_pipeline.adjust_checkout_times                                *)
(***************************************************************************)
\* adjust_mask, were the two times compared by their time of day
adjust_mask_time_of_day(r) ==
    /\ r.checkin.kind = "td"
    /\ r.checkout.kind = "td"
    /\ r.checkin.v % OneDay > r.checkout.v % OneDay

adjust_mask(r) == td_gt(r.checkin, r.checkout)

td_add(a, m) == IF a.kind = "td" THEN Td(a.v + m) ELSE NaT
td_sub(a, b) == IF a.kind = "td" /\ b.kind = "td" THEN Td(a.v - b.v) ELSE NaT
\* time_diff.dt.total_seconds() / 3600, kept in minutes
hours_of(d) == IF d.kind = "td" THEN Num(d.v) ELSE Nan

adjust_row(r) ==
    LET co == IF adjust_mask(r) THEN td_add(r.checkout, OneDay) ELSE r.checkout
        diff == td_sub(co, r.checkin)
    IN [index |-> r.index, timesheet_id |-> r.timesheet_id,
        employee_id |-> r.employee_id, date |-> r.date,
        checkin |-> r.checkin, checkout |-> co,
        time_diff |-> diff, hours_diff |-> hours_of(diff)]

adjust_checkout_times(timesheets) == [i \in DOMAIN timesheets |-> adjust_row(timesheets[i])]

(***************************************************************************)
(* transform_pipeline.merge_employees_timesheets                           *)
(***************************************************************************)
\* employees.rename(columns={'employe_id': 'employee_id'})
employees_renamed(emps) ==
    [i \in DOMAIN emps |-> [employee_id |-> emps[i].employe_id,
                            branch_id |-> emps[i].branch_id,
                            salary |-> emps[i].salary]]

MergedRow(r, branch_id, salary) ==
    [timesheet_id |-> r.timesheet_id, employee_id |-> r.employee_id,
     date |-> r.date, checkin |-> r.checkin, checkout |-> r.checkout,
     time_diff |-> r.time_diff, hours_diff |-> r.hours_diff,
     branch_id |-> branch_id, salary |-> salary,
     year |-> Calendar[r.date].year, month |-> Calendar[r.date].month]

\* the rows a left row gives in pd.merge(how='left'): one per matching right
\* row, in the right table's order, or one with NaN on the right columns
left_join_row(r, right) ==
    LET matches == SelectSeq(right, LAMBDA e : e.employee_id = r.employee_id)
    IN IF matches = <<>> THEN << MergedRow(r, Nan, Nan) >>
       ELSE [k \in DOMAIN matches |->
                MergedRow(r, Num(matches[k].branch_id), Num(matches[k].salary))]

RECURSIVE pd_merge_left(_, _)
pd_merge_left(left, right) ==
    IF left = <<>> THEN <<>>
    ELSE left_join_row(Head(left), right) \o pd_merge_left(Tail(left), right)

merge_employees_timesheets(timesheets, emps) ==
    LET rows == pd_merge_left(timesheets, employees_renamed(emps))
    IN [i \in DOMAIN rows |-> [index |-> i - 1] @@ rows[i]]

(***************************************************************************)
(* transform_pipeline.aggregate_data                                       *)
(***************************************************************************)
\* 'sum' of a column within a group: NaN is skipped, an empty sum is 0
RECURSIVE nansum(_)
nansum(cells) ==
    IF cells = <<>> THEN 0
    ELSE (IF Head(cells).kind = "num" THEN Head(cells).v ELSE 0) + nansum(Tail(cells))

\* 'sum' of the hours_diff / salary column over the rows of a stage-1 group
RECURSIVE sum_hours_diff(_)
sum_hours_diff(S) ==
    IF S = {} THEN 0
    ELSE LET x == CHOOSE y \in S : TRUE IN x.hours_diff + sum_hours_diff(S \ {x})

RECURSIVE sum_salary(_)
sum_salary(S) ==
    IF S = {} THEN 0
    ELSE LET x == CHOOSE y \in S : TRUE IN x.salary + sum_salary(S \ {x})

\* groupby drops the rows with NaN in a key column (dropna=True)
in_group_keys(r) == ~isna(r.branch_id) /\ ~isna(r.salary)

\* aggregated, were the first grouping by employee as well as by salary
aggregated_per_employee(merged_data) ==
    LET kept == SelectSeq(merged_data, in_group_keys)
        keys == {<<kept[i].year, kept[i].month, kept[i].branch_id.v, kept[i].salary.v,
                   kept[i].employee_id>> : i \in DOMAIN kept}
        rowsOf(k) == SelectSeq(kept, LAMBDA r :
                        <<r.year, r.month, r.branch_id.v, r.salary.v, r.employee_id>> = k)
        hoursOf(k) == LET g == rowsOf(k) IN nansum([i \in DOMAIN g |-> g[i].hours_diff])
    IN {[year |-> k[1], month |-> k[2], branch_id |-> k[3], salary |-> k[4],
         employee_id |-> k[5], hours_diff |-> hoursOf(k)] : k \in keys}

\* groupby(['year','month','branch_id','salary']).agg({'hours_diff': 'sum'})
aggregated(merged_data) ==
    LET kept == SelectSeq(merged_data, in_group_keys)
        keys == {<<kept[i].year, kept[i].month, kept[i].branch_id.v, kept[i].salary.v>> :
                    i \in DOMAIN kept}
        rowsOf(k) == SelectSeq(kept, LAMBDA r :
                        <<r.year, r.month, r.branch_id.v, r.salary.v>> = k)
        hoursOf(k) == LET g == rowsOf(k) IN nansum([i \in DOMAIN g |-> g[i].hours_diff])
    IN {[year |-> k[1], month |-> k[2], branch_id |-> k[3], salary |-> k[4],
         hours_diff |-> hoursOf(k)] : k \in keys}

\* groupby(['year','month','branch_id']).agg({'hours_diff': 'sum', 'salary': 'sum'})
final_aggregated(agg) ==
    LET keys == {<<a.year, a.month, a.branch_id>> : a \in agg}
        groupOf(k) == {a \in agg : <<a.year, a.month, a.branch_id>> = k}
    IN {[year |-> k[1], month |-> k[2], branch_id |-> k[3],
         hours_diff |-> sum_hours_diff(groupOf(k)),
         salary |-> sum_salary(groupOf(k))] : k \in keys}

RECURSIVE gcd(_, _)
gcd(a, b) == IF b = 0 THEN a ELSE gcd(b, a % b)
\* the quotient n / d (d > 0, n >= 0) as a fraction in lowest terms
Frac(n, d) == LET g == gcd(n, d) IN [num |-> n \div g, den |-> d \div g]

\* row['salary'] / row['hours_diff'] if row['hours_diff'] != 0 else 0
\* (hours_diff is in minutes: hours = hours_diff / 60)
salary_per_hour(row) ==
    IF row.hours_diff # 0 THEN Frac(row.salary * 60, row.hours_diff) ELSE Frac(0, 1)

\* final_aggregated.apply(..., axis=1) on a frame without rows: pandas either
\* gives an empty column, or (by version) gives back a frame whose assignment
\* to the single column raises ValueError
apply_may_raise(merged_data) ==
    IF final_aggregated(aggregated(merged_data)) = {} THEN BOOLEAN ELSE {FALSE}

aggregate_data(merged_data) ==
    {[year |-> f.year, month |-> f.month, branch_id |-> f.branch_id,
      hours_diff |-> f.hours_diff, salary |-> f.salary,
      salary_per_hour |-> salary_per_hour(f)] : f \in final_aggregated(aggregated(merged_data))}

(***************************************************************************)
(* load_pipeline.load_to_bigquery: the warehouse is the main table (a set  *)
(* of rows) and the staging table.  A step of it may fail.                 *)
(***************************************************************************)
BigQuerySteps == <<"client", "load_table", "delete", "insert", "delete_table">>
BigQueryFailures == {BigQuerySteps[i] : i \in DOMAIN BigQuerySteps} \cup {"none"}

\* does the step at position i run to its end when the step `fail` fails
StepDone(i, fail) == \A j \in 1..i : BigQuerySteps[j] # fail

SameWarehouseKey(a, b) == a.year = b.year /\ a.month = b.month /\ a.branch_id = b.branch_id

staging_after(df, old, fail) ==
    IF StepDone(5, fail) THEN [exists |-> FALSE, rows |-> {}]
    ELSE IF StepDone(2, fail) THEN [exists |-> TRUE, rows |-> df]
    ELSE old

main_after(df, old, fail) ==
    LET deleted == {m \in old : ~\E st \in df : SameWarehouseKey(m, st)}
    IN IF StepDone(4, fail) THEN deleted \cup df
       ELSE IF StepDone(3, fail) THEN deleted
       ELSE old

(***************************************************************************)
(* The input files and the clock of a run.                                 *)
(***************************************************************************)
PunchBodies(E, D, CI, CO) ==
    {[employee_id |-> e, date |-> d, checkin |-> ci, checkout |-> co] :
        e \in E, d \in D, ci \in CI, co \in CO}

\* timesheets.csv with the given rows; timesheet_id numbers the lines
TimesheetsFile(bodies) == [i \in DOMAIN bodies |-> [timesheet_id |-> i] @@ bodies[i]]

EmployeeRows(E, B, S) == {[employe_id |-> e, branch_id |-> b, salary |-> s] : e \in E, b \in B, s \in S}

Staff == << [employe_id |-> 1, branch_id |-> 1, salary |-> 3000],
            [employe_id |-> 2, branch_id |-> 1, salary |-> 3000],
            [employe_id |-> 3, branch_id |-> 1, salary |-> 4000],
            [employe_id |-> 4, branch_id |-> 2, salary |-> 3000] >>

\* the two files and the day of datetime.now() of one run
Run(ts, emps, today) ==
    /\ timesheets_csv = ts
    /\ employees_csv = emps
    /\ now = today

\* groups of punches of one employee and date, with missing and equal times
DuplicateRuns ==
    \E k \in 0..MaxGroupRows :
       \E b \in [1..k -> PunchBodies({1, 2}, {2}, {Nan, Str(H(9))},
                                     {Nan, Str(H(17)), Str(H(18))})] :
          Run(TimesheetsFile(b), Staff, 1)

\* one punch per employee, every kind of clock-in and clock-out
TimeRuns ==
    \E k \in 0..MaxTimeRows :
       \E c \in [1..k -> {Nan, Bad, Str(H(9)), Str(H(12)), Str(H(14)), Str(H(22))}
                         \X {Nan, Bad, Str(H(6)), Str(H(9)), Str(H(17))}] :
          Run(TimesheetsFile([i \in 1..k |->
                 [employee_id |-> i, date |-> 2, checkin |-> c[i][1], checkout |-> c[i][2]]]),
              Staff, 1)

\* any employee table against a few punches
JoinRuns ==
    \E k \in 0..MaxJoinRows, n \in 0..MaxEmployees :
       \E b \in [1..k -> PunchBodies({1, 2}, {2}, {Str(H(9))}, {Str(H(17))})],
          e \in [1..n -> EmployeeRows({1, 2}, {1}, {3000, 4000})] :
          Run(TimesheetsFile(b), e, 1)

\* punches of several dates against the clock
ClockRuns ==
    \E k \in 0..MaxJoinRows, t \in Dates :
       \E b \in [1..k -> PunchBodies({1}, Dates, {Str(H(9))}, {Str(H(17))})] :
          Run(TimesheetsFile(b), Staff, t)

\* punches of the staff (employee 5 is not in the employee table)
StaffBodies ==
    PunchBodies({1, 2, 3}, {2}, {Str(H(9))}, {Str(H(9)), Str(H(17))})
    \cup PunchBodies({1}, {3}, {Str(H(9))}, {Str(H(17))})
    \cup PunchBodies({4, 5}, {2}, {Str(H(9))}, {Str(H(17))})
    \cup PunchBodies({2}, {2}, {Nan}, {Nan})

StaffRuns ==
    \E k \in 0..MaxAggRows :
       \E b \in [1..k -> StaffBodies] : Run(TimesheetsFile(b), Staff, 1)

Runs == DuplicateRuns \/ TimeRuns \/ JoinRuns \/ ClockRuns \/ StaffRuns

\* a row left in the main table by an earlier run
StaleRow == [year |-> 2024, month |-> 1, branch_id |-> 1, hours_diff |-> 0,
             salary |-> 0, salary_per_hour |-> Frac(0, 1)]

(***************************************************************************)
(* etl_branch_salary.etl, one action per statement of its try block.       *)
(***************************************************************************)
Init ==
    /\ Runs
    /\ pc = "load_employees"
    /\ employees = <<>>
    /\ loaded = <<>>
    /\ deduped = <<>>
    /\ timed = <<>>
    /\ adjusted = <<>>
    /\ merged = <<>>
    /\ final_data = {}
    /\ staging = [exists |-> FALSE, rows |-> {}]
    /\ main_table = {StaleRow}
    /\ errors = <<>>
    /\ outcome = "running"
    /\ trace = <<>>

\* except Exception as e: logger.error(...), and etl falls off its end
Except(logged) ==
    /\ errors' = errors \o logged \o <<"etl">>
    /\ outcome' = "returned"
    /\ pc' = "done"

Goto(stage, next) ==
    /\ trace' = Append(trace, stage)
    /\ pc' = next
    /\ UNCHANGED <<errors, outcome>>

LoadEmployees ==
    /\ pc = "load_employees"
    /\ \E readable \in BOOLEAN :
          IF readable
          THEN /\ employees' = load_csv(employees_csv, "employees", now)
               /\ Goto("load_employees", "load_timesheets")
          ELSE /\ Except(<<"load_csv">>)
               /\ UNCHANGED <<employees, trace>>
    /\ UNCHANGED <<now, employees_csv, timesheets_csv, loaded, deduped, timed, adjusted,
                   merged, final_data, staging, main_table>>

LoadTimesheets ==
    /\ pc = "load_timesheets"
    /\ \E readable \in BOOLEAN :
          IF readable
          THEN /\ loaded' = load_csv(timesheets_csv, "timesheets", now)
               /\ Goto("load_timesheets", "remove_duplicates")
          ELSE /\ Except(<<"load_csv">>)
               /\ UNCHANGED <<loaded, trace>>
    /\ UNCHANGED <<now, employees_csv, timesheets_csv, employees, deduped, timed, adjusted,
                   merged, final_data, staging, main_table>>

RemoveDuplicates ==
    /\ pc = "remove_duplicates"
    /\ deduped' = remove_duplicates(loaded)
    /\ Goto("remove_duplicates", "transform_times")
    /\ UNCHANGED <<now, employees_csv, timesheets_csv, employees, loaded, timed, adjusted,
                   merged, final_data, staging, main_table>>

TransformTimes ==
    /\ pc = "transform_times"
    /\ IF transform_times_raises(deduped)
       THEN /\ Except(<<>>)
            /\ UNCHANGED <<timed, trace>>
       ELSE /\ timed' = transform_times(deduped)
            /\ Goto("transform_times", "adjust_checkout_times")
    /\ UNCHANGED <<now, employees_csv, timesheets_csv, employees, loaded, deduped, adjusted,
                   merged, final_data, staging, main_table>>

AdjustCheckoutTimes ==
    /\ pc = "adjust_checkout_times"
    /\ adjusted' = adjust_checkout_times(timed)
    /\ Goto("adjust_checkout_times", "merge_employees_timesheets")
    /\ UNCHANGED <<now, employees_csv, timesheets_csv, employees, loaded, deduped, timed,
                   merged, final_data, staging, main_table>>

MergeEmployeesTimesheets ==
    /\ pc = "merge_employees_timesheets"
    /\ merged' = merge_employees_timesheets(adjusted, employees)
    /\ Goto("merge_employees_timesheets", "aggregate_data")
    /\ UNCHANGED <<now, employees_csv, timesheets_csv, employees, loaded, deduped, timed,
                   adjusted, final_data, staging, main_table>>

AggregateData ==
    /\ pc = "aggregate_data"
    /\ \E raised \in apply_may_raise(merged) :
          IF raised
          THEN /\ Except(<<>>)
               /\ UNCHANGED <<final_data, trace>>
          ELSE /\ final_data' = aggregate_data(merged)
               /\ Goto("aggregate_data", "load_to_bigquery")
    /\ UNCHANGED <<now, employees_csv, timesheets_csv, employees, loaded, deduped, timed,
                   adjusted, merged, staging, main_table>>

LoadToBigQuery ==
    /\ pc = "load_to_bigquery"
    /\ \E fail \in BigQueryFailures :
          /\ staging' = staging_after(final_data, staging, fail)
          /\ main_table' = main_after(final_data, main_table, fail)
          /\ trace' = Append(trace, "load_to_bigquery")
          /\ IF fail = "none"
             THEN /\ outcome' = "returned"
                  /\ pc' = "done"
                  /\ UNCHANGED errors
             ELSE Except(<<"load_to_bigquery">>)
    /\ UNCHANGED <<now, employees_csv, timesheets_csv, employees, loaded, deduped, timed,
                   adjusted, merged, final_data>>

Next ==
    \/ LoadEmployees
    \/ LoadTimesheets
    \/ RemoveDuplicates
    \/ TransformTimes
    \/ AdjustCheckoutTimes
    \/ MergeEmployeesTimesheets
    \/ AggregateData
    \/ LoadToBigQuery

Spec == Init /\ [][Next]_vars

(***************************************************************************)
(* Properties.                                                             *)
(***************************************************************************)
Ran(stage) == \E i \in DOMAIN trace : trace[i] = stage

GroupSize(table, r) == Cardinality({i \in DOMAIN table : SameKey(table[i], r)})

Labels(table) == {table[i].index : i \in DOMAIN table}

IsTimeOfDay(c) == c.kind = "str" /\ c.v >= 0 /\ c.v < OneDay

\* C1: when every (employee_id, date) group of the table given to
\* remove_duplicates has at most 2 records, the table it returns holds no
\* (employee_id, date) pair more than once.
C1_NoKeyTwiceAfterDedup ==
    (Ran("remove_duplicates") /\ \A i \in DOMAIN loaded : GroupSize(loaded, loaded[i]) <= 2)
    => \A i, j \in DOMAIN deduped : i # j => ~SameKey(deduped[i], deduped[j])

\* C2: when every clock-in and clock-out given to transform_times is missing or
\* a valid time of day, then after adjust_checkout_times every record has a
\* clock-in and a clock-out, and hours-worked = clock-out - clock-in >= 0.
C2_TimesFilledAndHoursNonNegative ==
    (/\ Ran("adjust_checkout_times")
     /\ \A i \in DOMAIN deduped :
           /\ deduped[i].checkin = Nan \/ IsTimeOfDay(deduped[i].checkin)
           /\ deduped[i].checkout = Nan \/ IsTimeOfDay(deduped[i].checkout))
    => \A i \in DOMAIN adjusted :
          /\ ~isna(adjusted[i].checkin)
          /\ ~isna(adjusted[i].checkout)
          /\ adjusted[i].hours_diff = Num(adjusted[i].checkout.v - adjusted[i].checkin.v)
          /\ adjusted[i].hours_diff.v >= 0

\* C3: merge_employees_timesheets returns exactly the punch rows it was given,
\* each once and in order, whatever the employee table holds.
C3_MergeKeepsPunchRows ==
    Ran("merge_employees_timesheets")
    => /\ Len(merged) = Len(adjusted)
       /\ \A i \in DOMAIN merged :
             i \in DOMAIN adjusted /\ merged[i].timesheet_id = adjusted[i].timesheet_id

RECURSIVE TotalMinutes(_)
TotalMinutes(rows) ==
    IF rows = <<>> THEN 0
    ELSE (IF Head(rows).hours_diff = Nan THEN 0 ELSE Head(rows).hours_diff.v)
         + TotalMinutes(Tail(rows))

RECURSIVE TotalOf(_)
TotalOf(S) == IF S = {} THEN 0 ELSE LET x == CHOOSE y \in S : TRUE IN x + TotalOf(S \ {x})

\* the total hours over all rows of the aggregate (rows differ in their key)
AggregateMinutes(rows) ==
    LET keys == {<<f.year, f.month, f.branch_id>> : f \in rows}
        RECURSIVE over(_)
        over(K) == IF K = {} THEN 0
                   ELSE LET k == CHOOSE y \in K : TRUE
                        IN TotalOf({f.hours_diff : f \in {g \in rows :
                                       <<g.year, g.month, g.branch_id>> = k}})
                           + over(K \ {k})
    IN over(keys)

\* C4: the total hours over all rows aggregate_data returns equal the
\* hours-worked of all merged records, unmatched punches included.
C4_AggregationKeepsAllHours ==
    Ran("aggregate_data")
    => /\ \A f, g \in final_data :
             (f.year = g.year /\ f.month = g.month /\ f.branch_id = g.branch_id) => f = g
       /\ AggregateMinutes(final_data) = TotalMinutes(merged)

\* C5: transform_times fills a missing clock-out with 18:00:00 when clock-in
\* <= 12:00:00 and with 1 day + 08:00:00 when clock-in > 12:00:00, a missing
\* clock-in with 00:00:00 when clock-out <= 09:00:00 and with 09:00:00 when
\* clock-out > 09:00:00, keeps every time that was present, and changes no
\* other field and no row.
C5_ImputationRuleTable ==
    Ran("transform_times")
    => /\ Len(timed) = Len(deduped)
       /\ \A i \in DOMAIN deduped :
             LET r == deduped[i]
                 t == timed[i]
             IN /\ t.index = r.index
                /\ t.timesheet_id = r.timesheet_id
                /\ t.employee_id = r.employee_id
                /\ t.date = r.date
                /\ IsTimeOfDay(r.checkin) => t.checkin = Td(r.checkin.v)
                /\ IsTimeOfDay(r.checkout) => t.checkout = Td(r.checkout.v)
                /\ (r.checkout = Nan /\ IsTimeOfDay(r.checkin) /\ r.checkin.v <= H(12))
                      => t.checkout = Td(H(18))
                /\ (r.checkout = Nan /\ IsTimeOfDay(r.checkin) /\ r.checkin.v > H(12))
                      => t.checkout = Td(OneDay + H(8))
                /\ (r.checkin = Nan /\ IsTimeOfDay(r.checkout) /\ r.checkout.v <= H(9))
                      => t.checkin = Td(0)
                /\ (r.checkin = Nan /\ IsTimeOfDay(r.checkout) /\ r.checkout.v > H(9))
                      => t.checkin = Td(H(9))

\* a table in which a missing clock-out was filled with the next day's
\* 08:00:00 and a missing clock-in with 00:00:00
C5_Witness ==
    /\ Ran("transform_times")
    /\ \E i, j \in DOMAIN deduped :
          /\ deduped[i].checkout = Nan
          /\ deduped[i].checkin = Str(H(14))
          /\ timed[i].checkin = Td(H(14))
          /\ timed[i].checkout = Td(OneDay + H(8))
          /\ deduped[j].checkin = Nan
          /\ deduped[j].checkout = Str(H(6))
          /\ timed[j].checkin = Td(0)
          /\ timed[j].checkout = Td(H(6))

Later(a, b) == a.kind = "td" /\ b.kind = "td" /\ a.v > b.v

\* C6: adjust_checkout_times adds exactly 24 hours to the clock-out of every
\* record whose clock-in is later than its clock-out and to no other; a
\* clock-out imputed as 1 day + 08:00:00 gets no further 24 hours; 22:00:00 to
\* 06:00:00 gives 8 hours, 14:00:00 with a missing clock-out gives 18 hours.
C6_MidnightCorrectionOnce ==
    Ran("adjust_checkout_times")
    => /\ Len(adjusted) = Len(timed)
       /\ \A i \in DOMAIN timed :
             LET d == deduped[i]
                 t == timed[i]
                 a == adjusted[i]
             IN /\ a.checkin = t.checkin
                /\ Later(t.checkin, t.checkout) => a.checkout = Td(t.checkout.v + OneDay)
                /\ ~Later(t.checkin, t.checkout) => a.checkout = t.checkout
                /\ (d.checkout = Nan /\ t.checkout = Td(OneDay + H(8)))
                      => a.checkout = Td(OneDay + H(8))
                /\ (d.checkin = Str(H(22)) /\ d.checkout = Str(H(6)))
                      => a.hours_diff = Num(H(8))
                /\ (d.checkin = Str(H(14)) /\ d.checkout = Nan)
                      => a.hours_diff = Num(H(18))

\* a table with an overnight shift that was corrected and a next-day imputed
\* clock-out that was not
C6_Witness ==
    /\ Ran("adjust_checkout_times")
    /\ \E i, j \in DOMAIN adjusted :
          /\ deduped[i].checkin = Str(H(22))
          /\ deduped[i].checkout = Str(H(6))
          /\ adjusted[i].checkout = Td(OneDay + H(6))
          /\ adjusted[i].hours_diff = Num(H(8))
          /\ deduped[j].checkin = Str(H(14))
          /\ deduped[j].checkout = Nan
          /\ adjusted[j].checkout = Td(OneDay + H(8))
          /\ adjusted[j].hours_diff = Num(H(18))

MergedKey(r) == <<r.year, r.month, r.branch_id.v>>
AllMatched(table) ==
    \A i \in DOMAIN table : table[i].branch_id.kind = "num" /\ table[i].salary.kind = "num"

\* C7: for merged records with branch id and salary, aggregate_data returns
\* one row per (year, month, branch id); its hours are the sum of the hours of
\* the records of the key, its salary the sum of the distinct salaries of the
\* key, its salary-per-hour salary / hours, and 0 when the hours are 0.
C7_OneRowPerBranchPeriod ==
    (Ran("aggregate_data") /\ AllMatched(merged))
    => LET keys == {MergedKey(merged[i]) : i \in DOMAIN merged}
       IN /\ {<<f.year, f.month, f.branch_id>> : f \in final_data} = keys
          /\ Cardinality(final_data) = Cardinality(keys)
          /\ \A f \in final_data :
                LET rows == SelectSeq(merged, LAMBDA r :
                                MergedKey(r) = <<f.year, f.month, f.branch_id>>)
                IN /\ f.hours_diff = TotalMinutes(rows)
                   /\ f.salary = TotalOf({rows[i].salary.v : i \in DOMAIN rows})
                   /\ f.hours_diff # 0 =>
                         /\ f.salary_per_hour.den > 0
                         /\ f.salary_per_hour.num * f.hours_diff
                               = f.salary_per_hour.den * f.salary * 60
                   /\ f.hours_diff = 0 => f.salary_per_hour.num = 0

\* two employees of one salary in a branch whose hours are 0, beside a branch
\* with hours
C7_Witness ==
    /\ Ran("aggregate_data")
    /\ AllMatched(merged)
    /\ \E i, j \in DOMAIN merged :
          /\ merged[i].employee_id # merged[j].employee_id
          /\ MergedKey(merged[i]) = MergedKey(merged[j])
          /\ merged[i].salary = merged[j].salary
    /\ \E f, g \in final_data :
          /\ f.branch_id = 1
          /\ f.hours_diff = 0
          /\ f.salary = 3000
          /\ f.salary_per_hour = [num |-> 0, den |-> 1]
          /\ g.branch_id = 2
          /\ g.hours_diff = H(8)
          /\ g.salary_per_hour = [num |-> 375, den |-> 1]

Logged(source) == \E i \in DOMAIN errors : errors[i] = source

\* C8: a run in which load_csv or load_to_bigquery failed does not return
\* normally to the caller of etl, and after a load_csv failure no transform
\* stage and no warehouse load runs.
C8_StructuralFailureReported ==
    /\ (pc = "done" /\ (Logged("load_csv") \/ Logged("load_to_bigquery")))
          => outcome = "raised"
    /\ Logged("load_csv") =>
          \A stage \in {"remove_duplicates", "transform_times", "adjust_checkout_times",
                        "merge_employees_timesheets", "aggregate_data", "load_to_bigquery"} :
             ~Ran(stage)

EnteredTransformTimes == Ran("remove_duplicates") /\ pc # "transform_times"

\* C9: when a clock-in or clock-out given to transform_times is present but
\* no duration, transform_times raises nothing and returns the same rows with
\* that field null.
C9_ParseFailureNonFatal ==
    (EnteredTransformTimes
     /\ \E i \in DOMAIN deduped : deduped[i].checkin = Bad \/ deduped[i].checkout = Bad)
    => /\ Ran("transform_times")
       /\ Len(timed) = Len(deduped)
       /\ \A i \in DOMAIN deduped :
             /\ timed[i].timesheet_id = deduped[i].timesheet_id
             /\ deduped[i].checkin = Bad => timed[i].checkin = NaT
             /\ deduped[i].checkout = Bad => timed[i].checkout = NaT

====
